---- MODULE Spec2Model ----
(***************************************************************************)
(* RegexMap<V>: an associative container keyed by regular expressions,     *)
(* in its two variants: string::RegexMap (keys are &str) and               *)
(* bytes::RegexMap (keys are &[u8]).                                       *)
(*                                                                         *)
(* An expression is a sequence of one-character strings over               *)
(*   a b   literals            .   any character (a whole UTF-8 scalar)    *)
(*   ^ $   start / end of key  ( ) a group                                 *)
(* A key is a sequence of code units: "a", "b", and, for the byte-keyed    *)
(* variant only, "xFF", the byte 0xFF, which is never part of valid UTF-8. *)
(* Pattern indices are 0-based as in the code; TLA+ sequences are 1-based, *)
(* so index i reads position i + 1.                                        *)
(***************************************************************************)
EXTENDS Integers, Sequences, FiniteSets, TLC

VARIABLES kind,    \* "string" | "bytes": which RegexMap is under test
          items,   \* the (expression, value) pairs handed to new()
          status,  \* "init" | "built" | "panicked": the outcome of new()
          map,     \* the RegexMap { set, values } once built
          th       \* per caller thread: the lookup in progress and its result

vars == <<kind, items, status, map, th>>

----------------------------------------------------------------------------
(* Bounds and input pools *)

MaxItems == 3
MaxKeyLen == 2
MaxConcItems == 2

Threads == {"t1", "t2"}
MainThread == "t1"

Values == {1, 2}

\* a, ^(ab)$, .b are well formed; (a and a) have an unbalanced group.
ValidExprs == { <<"a">>, <<"^", "(", "a", "b", ")", "$">>, <<".", "b">> }
InvalidExprs == { <<"(", "a">>, <<"a", ")">> }
Exprs == ValidExprs \cup InvalidExprs

TextUnits == {"a", "b"}
ByteUnits == {"a", "b", "xFF"}

SeqsUpTo(S, n) == UNION { [1..k -> S] : k \in 0..n }

Units(k) == IF k = "string" THEN TextUnits ELSE ByteUnits
Keys(k) == SeqsUpTo(Units(k), MaxKeyLen)
ConcKeys(k) ==
    { <<>>, <<"a">>, <<"a", "a">>, <<"a", "b">> }
        \cup (IF k = "bytes" THEN { <<"xFF", "b">> } ELSE {})

Pairs == [expr : Exprs, value : Values]

----------------------------------------------------------------------------
(* The pattern engine: regex::RegexSet / regex::bytes::RegexSet *)

\* Group depth after scanning e[i..]; -1 as soon as a ")" has no open group.
RECURSIVE GroupDepth(_, _, _)
GroupDepth(e, i, d) ==
    IF i > Len(e) THEN d
    ELSE IF e[i] = "(" THEN GroupDepth(e, i + 1, d + 1)
    ELSE IF e[i] = ")" THEN (IF d = 0 THEN -1 ELSE GroupDepth(e, i + 1, d - 1))
    ELSE GroupDepth(e, i + 1, d)

\* The expression parses: every group is opened and closed.
ParseOk(e) == GroupDepth(e, 1, 0) = 0

\* e[i..] matches key starting after pos consumed units.
RECURSIVE MatchFrom(_, _, _, _)
MatchFrom(e, key, i, pos) ==
    IF i > Len(e) THEN TRUE
    ELSE CASE e[i] \in {"(", ")"} -> MatchFrom(e, key, i + 1, pos)
           [] e[i] = "^" -> pos = 0 /\ MatchFrom(e, key, i + 1, pos)
           [] e[i] = "$" -> pos = Len(key) /\ MatchFrom(e, key, i + 1, pos)
           [] e[i] = "." -> /\ pos < Len(key)
                            /\ key[pos + 1] \in TextUnits
                            /\ MatchFrom(e, key, i + 1, pos + 1)
           [] OTHER -> /\ pos < Len(key)
                       /\ key[pos + 1] = e[i]
                       /\ MatchFrom(e, key, i + 1, pos + 1)

\* The offsets of key at which e matches (an unanchored search tries them all).
MatchPositions(e, key) == { p \in 0..Len(key) : MatchFrom(e, key, 1, p) }

\* Regex::is_match for one expression.
RegexIsMatch(e, key) == MatchPositions(e, key) # {}

\* RegexSet::new(exprs): Ok(set) iff every expression parses.
RegexSetNew(exprs) ==
    IF \A i \in 1..Len(exprs) : ParseOk(exprs[i])
    THEN [ok |-> TRUE, set |-> exprs]
    ELSE [ok |-> FALSE, set |-> <<>>]

\* RegexSet::len
RegexSetLen(set) == Len(set)

\* RegexSet::matches(key): SetMatches, one flag per pattern.
RegexSetMatches(set, key) == [i \in 1..Len(set) |-> RegexIsMatch(set[i], key)]

\* SetMatches::into_iter: the 0-based indices whose flag is set, ascending.
RECURSIVE SetMatchesIntoIter(_, _)
SetMatchesIntoIter(matched, i) ==
    IF i > Len(matched) THEN <<>>
    ELSE (IF matched[i] THEN <<i - 1>> ELSE <<>>)
             \o SetMatchesIntoIter(matched, i + 1)

\* RegexSet::is_match(key)
RegexSetIsMatch(set, key) == \E i \in 1..Len(set) : RegexIsMatch(set[i], key)

----------------------------------------------------------------------------
(* RegexMap *)

NoMap == [set |-> <<>>, values |-> <<>>]

Idle == [pc |-> "idle", key |-> <<>>, rest |-> <<>>, out |-> <<>>, ret |-> FALSE]

\* Mutant of NewLoop: each value is inserted at the front of values.
RECURSIVE NewLoopPrepend(_, _, _, _)
NewLoopPrepend(its, i, exprs, values) ==
    IF i > Len(its) THEN [exprs |-> exprs, values |-> values]
    ELSE NewLoopPrepend(its, i + 1, Append(exprs, its[i].expr),
                        <<its[i].value>> \o values)

\* Mutant of NewLoop: a value already held is not pushed again.
RECURSIVE NewLoopDedup(_, _, _, _)
NewLoopDedup(its, i, exprs, values) ==
    IF i > Len(its) THEN [exprs |-> exprs, values |-> values]
    ELSE NewLoopDedup(its, i + 1, Append(exprs, its[i].expr),
                      IF \E j \in 1..Len(values) : values[j] = its[i].value
                      THEN values ELSE Append(values, its[i].value))

\* new(): for (expr, value) in items { exprs.push(expr); values.push(value); }
RECURSIVE NewLoop(_, _, _, _)
NewLoop(its, i, exprs, values) ==
    IF i > Len(its) THEN [exprs |-> exprs, values |-> values]
    ELSE NewLoop(its, i + 1, Append(exprs, its[i].expr), Append(values, its[i].value))

\* Mutant of New: expressions that do not parse are left out and a map over
\* the remaining ones is returned.
New_SkipInvalid ==
    /\ status = "init"
    /\ LET l == NewLoop(SelectSeq(items, LAMBDA it : ParseOk(it.expr)), 1, <<>>, <<>>)
           r == RegexSetNew(l.exprs)
       IN  /\ status' = "built"
           /\ map' = [set |-> r.set, values |-> l.values]
    /\ UNCHANGED <<kind, items, th>>

\* new(items): RegexSet::new(exprs).unwrap() panics on Err; otherwise
\* RegexMap { set, values } is returned.
New ==
    /\ status = "init"
    /\ LET l == NewLoop(items, 1, <<>>, <<>>)
           r == RegexSetNew(l.exprs)
       IN  IF r.ok
           THEN /\ status' = "built"
                /\ map' = [set |-> r.set, values |-> l.values]
           ELSE /\ status' = "panicked"
                /\ map' = NoMap
    /\ UNCHANGED <<kind, items, th>>

\* One copy of index i - 1 per offset of key at which set[i] matches.
RECURSIVE PerOccurrence(_, _, _)
PerOccurrence(set, key, i) ==
    IF i > Len(set) THEN <<>>
    ELSE [n \in 1..Cardinality(MatchPositions(set[i], key)) |-> i - 1]
             \o PerOccurrence(set, key, i + 1)

\* Mutant of Get: one element per occurrence of a pattern in the key.
Get_PerOccurrence(t, key) ==
    /\ status = "built"
    /\ th[t].pc = "idle"
    /\ th' = [th EXCEPT ![t] =
                [pc |-> "iter", key |-> key,
                 rest |-> PerOccurrence(map.set, key, 1),
                 out |-> <<>>, ret |-> FALSE]]
    /\ UNCHANGED <<kind, items, status, map>>

\* Mutant of Get: the indices are taken as 1-based.
Get_OneBased(t, key) ==
    /\ status = "built"
    /\ th[t].pc = "idle"
    /\ LET r == SetMatchesIntoIter(RegexSetMatches(map.set, key), 1)
       IN  th' = [th EXCEPT ![t] =
                    [pc |-> "iter", key |-> key,
                     rest |-> [j \in 1..Len(r) |-> r[j] + 1],
                     out |-> <<>>, ret |-> FALSE]]
    /\ UNCHANGED <<kind, items, status, map>>

\* Mutant of Get: the matching indices are visited from the highest down.
Get_Reversed(t, key) ==
    /\ status = "built"
    /\ th[t].pc = "idle"
    /\ LET r == SetMatchesIntoIter(RegexSetMatches(map.set, key), 1)
       IN  th' = [th EXCEPT ![t] =
                    [pc |-> "iter", key |-> key,
                     rest |-> [j \in 1..Len(r) |-> r[Len(r) + 1 - j]],
                     out |-> <<>>, ret |-> FALSE]]
    /\ UNCHANGED <<kind, items, status, map>>

\* get(key): self.set.matches(key).into_iter().map(|i| &self.values[i]) -
\* the index set is computed by the call, the values are read by next().
Get(t, key) ==
    /\ status = "built"
    /\ th[t].pc = "idle"
    /\ th' = [th EXCEPT ![t] =
                [pc |-> "iter", key |-> key,
                 rest |-> SetMatchesIntoIter(RegexSetMatches(map.set, key), 1),
                 out |-> <<>>, ret |-> FALSE]]
    /\ UNCHANGED <<kind, items, status, map>>

\* s without its n-th element.
RemoveAt(s, n) == [j \in 1..(Len(s) - 1) |-> IF j < n THEN s[j] ELSE s[j + 1]]

\* Mutant of IterNext: the value is moved out of the map (values.remove(i)).
IterNext_Take(t) ==
    /\ th[t].pc = "iter"
    /\ IF th[t].rest = <<>>
       THEN th' = [th EXCEPT ![t].pc = "done"] /\ map' = map
       ELSE LET i == Head(th[t].rest)
            IN  IF i < Len(map.values)
                THEN /\ th' = [th EXCEPT ![t].rest = Tail(@),
                                         ![t].out = Append(@, map.values[i + 1])]
                     /\ map' = [map EXCEPT !.values = RemoveAt(@, i + 1)]
                ELSE th' = [th EXCEPT ![t].pc = "panic"] /\ map' = map
    /\ UNCHANGED <<kind, items, status>>

\* Mutant of IterNext: the position in the index set is kept once for the map,
\* so one caller's next() also advances every other iterator in progress.
IterNext_Shared(t) ==
    /\ th[t].pc = "iter"
    /\ IF th[t].rest = <<>>
       THEN th' = [th EXCEPT ![t].pc = "done"]
       ELSE LET i == Head(th[t].rest)
            IN  IF i < Len(map.values)
                THEN th' = [u \in Threads |->
                              IF u = t
                              THEN [th[u] EXCEPT !.rest = Tail(@),
                                                 !.out = Append(@, map.values[i + 1])]
                              ELSE IF th[u].pc = "iter" /\ th[u].rest # <<>>
                              THEN [th[u] EXCEPT !.rest = Tail(@)]
                              ELSE th[u]]
                ELSE th' = [th EXCEPT ![t].pc = "panic"]
    /\ UNCHANGED <<kind, items, status, map>>

\* next() on the iterator get() returned: the next index i, mapped to
\* &self.values[i] (a bounds-checked read), or None at the end.
IterNext(t) ==
    /\ th[t].pc = "iter"
    /\ IF th[t].rest = <<>>
       THEN th' = [th EXCEPT ![t].pc = "done"]
       ELSE LET i == Head(th[t].rest)
            IN  IF i < Len(map.values)
                THEN th' = [th EXCEPT ![t].rest = Tail(@),
                                      ![t].out = Append(@, map.values[i + 1])]
                ELSE th' = [th EXCEPT ![t].pc = "panic"]
    /\ UNCHANGED <<kind, items, status, map>>

\* Mutant of ContainsKey: only the first pattern is tried.
ContainsKey_FirstOnly(t, key) ==
    /\ status = "built"
    /\ th[t].pc = "idle"
    /\ th' = [th EXCEPT ![t] =
                [pc |-> "contains", key |-> key, rest |-> <<>>, out |-> <<>>,
                 ret |-> Len(map.set) > 0 /\ RegexIsMatch(map.set[1], key)]]
    /\ UNCHANGED <<kind, items, status, map>>

\* Mutant of ContainsKey: true whenever the map holds a pattern.
ContainsKey_AnyPattern(t, key) ==
    /\ status = "built"
    /\ th[t].pc = "idle"
    /\ th' = [th EXCEPT ![t] =
                [pc |-> "contains", key |-> key, rest |-> <<>>, out |-> <<>>,
                 ret |-> RegexSetLen(map.set) > 0]]
    /\ UNCHANGED <<kind, items, status, map>>

\* contains_key(key): self.set.is_match(key)
ContainsKey(t, key) ==
    /\ status = "built"
    /\ th[t].pc = "idle"
    /\ th' = [th EXCEPT ![t] =
                [pc |-> "contains", key |-> key, rest |-> <<>>, out |-> <<>>,
                 ret |-> RegexSetIsMatch(map.set, key)]]
    /\ UNCHANGED <<kind, items, status, map>>

\* The caller lets go of an iterator (wherever it stands) or of a result.
Drop(t) ==
    /\ th[t].pc \in {"iter", "done", "contains"}
    /\ th' = [th EXCEPT ![t] = Idle]
    /\ UNCHANGED <<kind, items, status, map>>

\* get(key).collect(): the iterator run to its end by one caller alone.
RECURSIVE Collect(_, _)
Collect(m, rest) ==
    IF rest = <<>> THEN <<>>
    ELSE <<m.values[Head(rest) + 1]>> \o Collect(m, Tail(rest))

GetCollect(m, key) == Collect(m, SetMatchesIntoIter(RegexSetMatches(m.set, key), 1))

----------------------------------------------------------------------------
(* Specifications *)

\* One caller, every item list up to MaxItems and every key up to MaxKeyLen.
Init ==
    /\ kind \in {"string", "bytes"}
    /\ items \in SeqsUpTo(Pairs, MaxItems)
    /\ status = "init"
    /\ map = NoMap
    /\ th = [t \in Threads |-> Idle]

Next ==
    \/ New
    \/ \E key \in Keys(kind) : Get(MainThread, key)
    \/ IterNext(MainThread)
    \/ \E key \in Keys(kind) : ContainsKey(MainThread, key)
    \/ Drop(MainThread)

Spec == Init /\ [][Next]_vars

\* Several callers sharing one map (&RegexMap is shared between threads).
InitConc ==
    /\ kind \in {"string", "bytes"}
    /\ items \in SeqsUpTo(Pairs, MaxConcItems)
    /\ status = "init"
    /\ map = NoMap
    /\ th = [t \in Threads |-> Idle]

NextConc ==
    \/ New
    \/ \E t \in Threads, key \in ConcKeys(kind) : Get(t, key)
    \/ \E t \in Threads : IterNext(t)
    \/ \E t \in Threads, key \in ConcKeys(kind) : ContainsKey(t, key)
    \/ \E t \in Threads : Drop(t)

SpecConc == InitConc /\ [][NextConc]_vars

----------------------------------------------------------------------------
(* What the claims speak of, stated over the items handed to new() *)

\* The positions (1-based) of the items whose expression matches key.
MatchingItems(key) == { i \in 1..Len(items) : RegexIsMatch(items[i].expr, key) }

\* value[i1], value[i2], ..., value[im] for the matching i1 < i2 < ... < im.
RECURSIVE ValuesInOrder(_, _)
ValuesInOrder(key, i) ==
    IF i > Len(items) THEN <<>>
    ELSE (IF i \in MatchingItems(key) THEN <<items[i].value>> ELSE <<>>)
             \o ValuesInOrder(key, i + 1)

IsPrefix(a, b) == Len(a) <= Len(b) /\ SubSeq(b, 1, Len(a)) = a

SomeInvalid == \E i \in 1..Len(items) : ~ParseOk(items[i].expr)

Min(S) == CHOOSE x \in S : \A y \in S : x <= y

----------------------------------------------------------------------------
(* Claims *)

\* C1: get(k) yields the values of the matching patterns in ascending order
\* of construction index: what has been yielded so far is a prefix of
\* value[i1], ..., value[im], and the finished sequence is exactly that.
C1_GetInDeclarationOrder ==
    \A t \in Threads :
        /\ th[t].pc = "iter" => IsPrefix(th[t].out, ValuesInOrder(th[t].key, 1))
        /\ th[t].pc = "done" => th[t].out = ValuesInOrder(th[t].key, 1)

\* A finished get whose matching indices are 0 and 2 but not 1, with
\* different values at the two.
C1_Witness ==
    /\ th[MainThread].pc = "done"
    /\ MatchingItems(th[MainThread].key) = {1, 3}
    /\ items[1].value # items[3].value
    /\ Len(th[MainThread].out) = 2

\* C2: contains_key(k) is true iff get(k) yields at least one element.
C2_ContainsIffGetNonEmpty ==
    \A t \in Threads :
        th[t].pc = "contains" =>
            (th[t].ret <=> GetCollect(map, th[t].key) # <<>>)

\* contains_key answered true for a key only the last of three patterns matches.
C2_Witness ==
    /\ th[MainThread].pc = "contains"
    /\ th[MainThread].ret
    /\ MatchingItems(th[MainThread].key) = {3}

\* C3: when any supplied expression is invalid, new() returns no map, and no
\* lookup is ever performed.
C3_InvalidExprNoMap ==
    SomeInvalid =>
        /\ status \in {"init", "panicked"}
        /\ map = NoMap
        /\ \A t \in Threads : th[t] = Idle

\* new() has panicked on items whose first two expressions are valid and whose
\* third is not.
C3_Witness ==
    /\ status = "panicked"
    /\ Len(items) = 3
    /\ ParseOk(items[1].expr) /\ ParseOk(items[2].expr)
    /\ ~ParseOk(items[3].expr)

\* C4: in every state of a built map, len(values) = number of pairs supplied
\* = number of patterns in the matcher.
C4_SizeInvariant ==
    status = "built" =>
        /\ Len(map.values) = Len(items)
        /\ RegexSetLen(map.set) = Len(items)

\* A map of three pairs, two of them with the same value, after a lookup
\* that ran to its end.
C4_Witness ==
    /\ status = "built"
    /\ Len(items) = 3
    /\ items[1].value = items[3].value
    /\ th[MainThread].pc = "done"

\* C5: the number of elements of get(k) is the number of distinct patterns
\* that match k, however often each occurs in k.
C5_OneElementPerPattern ==
    \A t \in Threads :
        /\ th[t].pc = "done" =>
             Len(th[t].out) = Cardinality(MatchingItems(th[t].key))
        /\ th[t].pc = "iter" =>
             Len(th[t].out) + Len(th[t].rest) = Cardinality(MatchingItems(th[t].key))

\* A finished get for a key in which a pattern occurs at two offsets, on a
\* map that also holds a pattern that does not match.
C5_Witness ==
    /\ th[MainThread].pc = "done"
    /\ \E i \in 1..Len(items) :
           Cardinality(MatchPositions(items[i].expr, th[MainThread].key)) >= 2
    /\ \E i \in 1..Len(items) : i \notin MatchingItems(th[MainThread].key)
    /\ th[MainThread].out # <<>>

\* C6: no lookup fails: no values[i] read is out of bounds, and every index
\* still to be read is in 0 .. len(values) - 1.
C6_LookupsNeverFail ==
    \A t \in Threads :
        /\ th[t].pc # "panic"
        /\ \A j \in 1..Len(th[t].rest) :
               0 <= th[t].rest[j] /\ th[t].rest[j] < Len(map.values)

\* A byte key that is not valid text, looked up to the end, the last
\* pattern of the map among the matches.
C6_Witness ==
    /\ kind = "bytes"
    /\ th[MainThread].pc = "done"
    /\ \E j \in 1..Len(th[MainThread].key) : th[MainThread].key[j] = "xFF"
    /\ Len(items) \in MatchingItems(th[MainThread].key)

\* C7: any two finished get(k) for the same k hold the same sequence, whatever
\* ran between them, and no step of a lookup changes the map.
C7_GetRepeatable ==
    /\ [](\A t, u \in Threads :
            (/\ th[t].pc = "done" /\ th[u].pc = "done"
             /\ th[t].key = th[u].key) => th[t].out = th[u].out)
    /\ [][status = "built" => (map' = map /\ status' = status)]_vars

\* Two finished get(k) for the same k, of two elements each.
C7_Witness ==
    /\ th["t1"].pc = "done" /\ th["t2"].pc = "done"
    /\ th["t1"].key = th["t2"].key
    /\ Len(th["t1"].out) = 2

\* C8: the first element get(k) yields is the value of the lowest matching
\* index, which is the first element of the collected get(k); the iterator ends
\* without an element only when nothing matches; letting go of the iterator
\* leaves the map as it was.
C8_FirstMatch ==
    /\ [](\A t \in Threads :
            /\ (th[t].pc \in {"iter", "done"} /\ th[t].out # <<>>) =>
                 /\ MatchingItems(th[t].key) # {}
                 /\ th[t].out[1] = items[Min(MatchingItems(th[t].key))].value
                 /\ th[t].out[1] = GetCollect(map, th[t].key)[1]
            /\ (th[t].pc = "done" /\ th[t].out = <<>>) =>
                 MatchingItems(th[t].key) = {})
    /\ [][\A t \in Threads : Drop(t) => (map' = map /\ status' = status)]_vars

\* next() called once: one element out, more left unread, the lowest
\* matching pattern not the first of the map and its value not the next one's.
C8_Witness ==
    /\ th[MainThread].pc = "iter"
    /\ Len(th[MainThread].out) = 1
    /\ th[MainThread].rest # <<>>
    /\ Min(MatchingItems(th[MainThread].key)) > 1
    /\ th[MainThread].out[1] # map.values[Head(th[MainThread].rest) + 1]

\* C9: for a key no pattern matches, get yields nothing and contains_key is
\* false.
C9_NoMatch ==
    \A t \in Threads :
        MatchingItems(th[t].key) = {} =>
            /\ th[t].pc \in {"iter", "done"} => (th[t].out = <<>> /\ th[t].rest = <<>>)
            /\ th[t].pc = "contains" => ~th[t].ret

\* On a map of two patterns, a finished get and a contains_key for the same
\* key, which neither pattern matches.
C9_Witness ==
    /\ status = "built"
    /\ Len(items) = 2
    /\ th["t1"].pc = "done" /\ th["t2"].pc = "contains"
    /\ th["t1"].key = th["t2"].key
    /\ th["t1"].key # <<>>
    /\ MatchingItems(th["t1"].key) = {}

\* C10: under every interleaving, each lookup holds what it would hold run
\* alone at the same point (what it has yielded, followed by what it has
\* still to yield, is the collected get(k); contains_key is is_match), and
\* the map is the one new() built.
C10_ConcurrentLookups ==
    /\ status = "built" =>
         map = [set |-> [i \in 1..Len(items) |-> items[i].expr],
                values |-> [i \in 1..Len(items) |-> items[i].value]]
    /\ \A t \in Threads :
         /\ th[t].pc = "iter" =>
              th[t].out \o Collect(map, th[t].rest) = GetCollect(map, th[t].key)
         /\ th[t].pc = "done" => th[t].out = GetCollect(map, th[t].key)
         /\ th[t].pc = "contains" => th[t].ret = RegexSetIsMatch(map.set, th[t].key)

\* Two iterators over different keys, each half consumed.
C10_Witness ==
    /\ th["t1"].pc = "iter" /\ th["t2"].pc = "iter"
    /\ th["t1"].key # th["t2"].key
    /\ Len(th["t1"].out) = 1 /\ Len(th["t1"].rest) = 1
    /\ Len(th["t2"].out) = 1 /\ Len(th["t2"].rest) = 1

====
